---- MODULE Spec2Model ----
(***************************************************************************)
(* carp: a launcher that checks three external binaries (installing the    *)
(* absent ones with cargo), generates a chain spec, purges old chain data, *)
(* starts polkadot-omni-node and eth-rpc, and on Ctrl-C sends both a TERM   *)
(* through the kill command before exiting.                                *)
(*                                                                         *)
(* The main thread and the ctrlc handler thread are state machines over    *)
(* the list of child processes the program has tried to start.  The        *)
(* operating system is the environment: whether a spawn succeeds, what a   *)
(* waited child exits with, when a service exits and when SIGINT arrives.  *)
(***************************************************************************)
EXTENDS Naturals, Sequences, FiniteSets

VARIABLES
    dependencies,  \* the Vec<Dependency> handed to check_dependencies
    pc,            \* the main thread's position in main
    dep_i,         \* index of the dependency for_each is at
    children,      \* every spawn attempt so far, in order; pid = position
    handler,       \* the ctrlc handler thread's position
    pending,       \* SIGINT deliveries the handler thread has not taken yet
    status,        \* how the program ended, "running" while it has not
    panic_msg      \* the message of the panic that happened, "" if none

vars == <<dependencies, pc, dep_i, children, handler, pending, status, panic_msg>>

---------------------------------------------------------------------------
(* Bounds of the model. *)

\* SIGINT deliveries that may be pending at once.
MaxSignals == 2
\* Length of the dependency lists check_dependencies is tried on.
MaxDeps == 2

---------------------------------------------------------------------------
(* Constants of the program. *)

POLKADOT_OMNI_NODE_BIN == "polkadot-omni-node"
CHAIN_SPEC_BUILDER == "chain-spec-builder"
ETH_RPC_BIN == "eth-rpc"

\* Option<T>: None is the empty sequence, Some(x) is <<x>>.
None == <<>>
Some(x) == <<x>>

GitOptions(url, tag, install_type) ==
    [url |-> url, tag_or_hash |-> tag, install_type |-> install_type]

Dependency(bin, install_bin, git) ==
    [bin |-> bin, install_bin |-> install_bin, git |-> git]

git_options ==
    GitOptions("https://github.com/paritytech/polkadot-sdk.git",
               "polkadot-stable2412", "Tag")

\* The list main builds.
main_dependencies ==
    << Dependency(POLKADOT_OMNI_NODE_BIN, POLKADOT_OMNI_NODE_BIN, Some(git_options)),
       Dependency(CHAIN_SPEC_BUILDER, "staging-chain-spec-builder", Some(git_options)),
       Dependency(ETH_RPC_BIN, "pallet-revive-eth-rpc",
                  Some(GitOptions("https://github.com/paritytech/polkadot-sdk.git",
                                  "d1d92ab76004ce349a97fc5d325eaf9a4a7101b7",
                                  "CommitHash"))) >>

chain_spec_args ==
    <<"create", "--runtime", "./runtimes/westend.wasm", "--para-id", "100",
      "--relay-chain", "paseo", "named-preset", "development">>

purge_args == <<"purge-chain", "--chain", "./chain_spec.json", "-y">>

omni_node_args == <<"--chain", "./chain_spec.json", "--dev-block-time", "6000">>

eth_rpc_args == <<"--chain", "./chain_spec.json", "--rpc-cors=all", "--log=debug">>

---------------------------------------------------------------------------
(* u32::to_string: the decimal digits of a process id. *)

Digit(d) == <<"0", "1", "2", "3", "4", "5", "6", "7", "8", "9">>[d + 1]

RECURSIVE to_string(_)
to_string(n) ==
    IF n < 10 THEN Digit(n) ELSE to_string(n \div 10) \o Digit(n % 10)

\* kill_process naming the first child of the program instead of the one
\* whose id it was given.
kill_args_first(id) == <<"-s", "TERM", to_string(1)>>

\* The arguments kill_process hands to the kill command.
kill_args(id) == <<"-s", "TERM", to_string(id)>>

\* What the kill command does with its last argument: the process, if any,
\* whose id has these digits.
kill_targets(args) ==
    {k \in 1..Len(children) : to_string(k) = args[Len(args)]}

---------------------------------------------------------------------------
(* Child processes. *)

\* What the operating system may answer to a spawn.
SpawnResults == {TRUE, FALSE}

\* What Child::wait may return: the exit status, or an io::Error.
WaitResults == {"exit0", "exit1", "wait_err"}

\* generate_child_process / Command::spawn: one more entry in children.
\* role names the place in the source that spawned it; st is "spawn_err" when
\* the spawn failed, else "running" until the child exits; term counts the
\* TERM signals the child has been sent.
generate_child_process(by, role, bin_name, args, ok) ==
    Append(children,
           [by |-> by, role |-> role, bin |-> bin_name, args |-> args,
            st |-> IF ok THEN "running" ELSE "spawn_err", term |-> 0])

\* The child most recently spawned.
last == Len(children)

\* Child::wait returning r for child k.
wait(k, r) == [children EXCEPT ![k].st = r]

\* The position of the child spawned at a given place, 0 if there is none.
child_of(role) ==
    IF \E k \in 1..Len(children) : children[k].role = role
    THEN CHOOSE k \in 1..Len(children) : children[k].role = role
    ELSE 0

alive(k) == children[k].st = "running"

---------------------------------------------------------------------------
(* install_dependency: the cargo command line for a dependency. *)

\* install_dependency with the two pinning flags exchanged.
install_args_swapped(dep) ==
    IF dep.git # None
    THEN LET git == dep.git[1] IN
         IF git.install_type = "Tag"
         THEN <<"install", "--git", git.url, "--rev", git.tag_or_hash, dep.install_bin>>
         ELSE <<"install", "--git", git.url, "--tag", git.tag_or_hash, dep.install_bin>>
    ELSE <<"install", dep.install_bin>>

install_args(dep) ==
    IF dep.git # None
    THEN LET git == dep.git[1] IN
         IF git.install_type = "Tag"
         THEN <<"install", "--git", git.url, "--tag", git.tag_or_hash, dep.install_bin>>
         ELSE <<"install", "--git", git.url, "--rev", git.tag_or_hash, dep.install_bin>>
    ELSE <<"install", dep.install_bin>>

\* A probe that reports every dependency absent.
probe_is_err_always(ok) == TRUE

\* Result::is_err of the presence probe's spawn.
probe_is_err(ok) == ~ok

\* The program stops: by returning Err from main (exit status 1), by a panic
\* of the main thread (101), by exit(0), or killed by SIGINT.
Stop(how, msg) ==
    /\ status' = how
    /\ panic_msg' = msg
    /\ pc' = "done"

Running == status = "running"

---------------------------------------------------------------------------
(* check_dependencies: the for_each closure, one dependency at a time. *)

\* The presence probe: spawn dep.bin with no arguments, output discarded.
\* The child is neither waited for nor kept.
check_dependencies_probe ==
    /\ Running /\ pc = "check_dependencies" /\ dep_i <= Len(dependencies)
    /\ \E ok \in SpawnResults :
        /\ children' = generate_child_process("main", "probe",
                           dependencies[dep_i].bin, <<>>, ok)
        /\ IF probe_is_err(ok)
           THEN pc' = "install_dependency" /\ dep_i' = dep_i
           ELSE pc' = "check_dependencies" /\ dep_i' = dep_i + 1
    /\ UNCHANGED <<dependencies, handler, pending, status, panic_msg>>

\* install_dependency up to the spawn of cargo; a failed spawn is the Err
\* that expect("Could not install dependency") panics on.
install_dependency_spawn ==
    /\ Running /\ pc = "install_dependency"
    /\ \E ok \in SpawnResults :
        /\ children' = generate_child_process("main", "install", "cargo",
                           install_args(dependencies[dep_i]), ok)
        /\ IF ok
           THEN pc' = "install_wait" /\ UNCHANGED <<status, panic_msg>>
           ELSE Stop("panic", "Could not install dependency")
    /\ UNCHANGED <<dependencies, dep_i, handler, pending>>

\* let _ = ...wait(): whatever wait returns is dropped and Ok(()) returned.
install_dependency_wait ==
    /\ Running /\ pc = "install_wait"
    /\ \E r \in WaitResults : children' = wait(last, r)
    /\ pc' = "check_dependencies"
    /\ dep_i' = dep_i + 1
    /\ UNCHANGED <<dependencies, handler, pending, status, panic_msg>>

\* The list is exhausted: check_dependencies returns Ok(()).
check_dependencies_return ==
    /\ Running /\ pc = "check_dependencies" /\ dep_i > Len(dependencies)
    /\ pc' = "chain_spec"
    /\ UNCHANGED <<dependencies, dep_i, children, handler, pending, status, panic_msg>>

---------------------------------------------------------------------------
(* main: chain preparation. *)

\* A spawn by main followed by `?`.
main_spawn(here, role, bin_name, args, next) ==
    /\ Running /\ pc = here
    /\ \E ok \in SpawnResults :
        /\ children' = generate_child_process("main", role, bin_name, args, ok)
        /\ IF ok
           THEN pc' = next /\ UNCHANGED <<status, panic_msg>>
           ELSE Stop("exit1", "")
    /\ UNCHANGED <<dependencies, dep_i, handler, pending>>

\* A `?` that never sees an Err.
wait_is_err_never(r) == FALSE

\* A check of the exit status: anything but exit status 0 is an Err.
wait_is_err_nonzero(r) == r # "exit0"

\* What `.wait()?` makes of wait's result: only an io::Error is an Err, the
\* exit status itself is not looked at.
wait_is_err(r) == r = "wait_err"

\* main going on without waiting for the child it spawned.
main_wait_skipped(here, next) ==
    /\ Running /\ pc = here
    /\ pc' = next
    /\ UNCHANGED <<dependencies, dep_i, children, handler, pending, status, panic_msg>>

\* A wait by main followed by `?`.
main_wait(here, next) ==
    /\ Running /\ pc = here
    /\ \E r \in WaitResults :
        /\ children' = wait(last, r)
        /\ IF wait_is_err(r)
           THEN Stop("exit1", "")
           ELSE pc' = next /\ UNCHANGED <<status, panic_msg>>
    /\ UNCHANGED <<dependencies, dep_i, handler, pending>>

main_chain_spec_spawn ==
    main_spawn("chain_spec", "chain_spec", CHAIN_SPEC_BUILDER, chain_spec_args,
               "chain_spec_wait")

main_chain_spec_wait == main_wait("chain_spec_wait", "purge")

main_purge_spawn ==
    main_spawn("purge", "purge", POLKADOT_OMNI_NODE_BIN, purge_args, "purge_wait")

main_purge_wait == main_wait("purge_wait", "omni_node")

---------------------------------------------------------------------------
(* main: the two services, the handler, the idle loop. *)

main_omni_node_spawn ==
    main_spawn("omni_node", "omni_node", POLKADOT_OMNI_NODE_BIN, omni_node_args,
               "eth_rpc")

main_eth_rpc_spawn ==
    main_spawn("eth_rpc", "eth_rpc", ETH_RPC_BIN, eth_rpc_args, "set_handler")

\* ctrlc::set_handler(..).expect(..): on success the handler thread exists
\* and blocks until a SIGINT arrives; an Err panics the main thread.
main_set_handler ==
    /\ Running /\ pc = "set_handler"
    /\ \E ok \in SpawnResults :
        IF ok
        THEN /\ handler' = "blocked"
             /\ pc' = "loop"
             /\ UNCHANGED <<status, panic_msg>>
        ELSE /\ Stop("panic", "Error setting Ctrl-C handler")
             /\ UNCHANGED handler
    /\ UNCHANGED <<dependencies, dep_i, children, pending>>

\* An idle loop that sends the node a TERM of its own, once.
main_sleep_kills ==
    /\ Running /\ pc = "loop"
    /\ pc' = "sleep"
    /\ IF \E k \in 1..Len(children) : children[k].by = "main" /\ children[k].bin = "kill"
       THEN UNCHANGED children
       ELSE children' = generate_child_process("main", "kill_omni_node", "kill",
                            kill_args(child_of("omni_node")), TRUE)
    /\ UNCHANGED <<dependencies, dep_i, handler, pending, status, panic_msg>>

\* loop { sleep(1s) }: the thread goes to sleep ...
main_sleep ==
    /\ Running /\ pc = "loop"
    /\ pc' = "sleep"
    /\ UNCHANGED <<dependencies, dep_i, children, handler, pending, status, panic_msg>>

\* An idle loop with a restart-on-exit policy: a service found exited is
\* started again, once.
main_wake_restart ==
    /\ Running /\ pc = "sleep"
    /\ pc' = "loop"
    /\ IF /\ child_of("omni_node") # 0
          /\ children[child_of("omni_node")].st = "exited"
          /\ Cardinality({k \in 1..Len(children) : children[k].role = "omni_node"}) < 2
       THEN children' = generate_child_process("main", "omni_node",
                            POLKADOT_OMNI_NODE_BIN, omni_node_args, TRUE)
       ELSE UNCHANGED children
    /\ UNCHANGED <<dependencies, dep_i, handler, pending, status, panic_msg>>

\* ... and wakes up into the next iteration.
main_wake ==
    /\ Running /\ pc = "sleep"
    /\ pc' = "loop"
    /\ UNCHANGED <<dependencies, dep_i, children, handler, pending, status, panic_msg>>

---------------------------------------------------------------------------
(* The handler thread: the closure given to ctrlc::set_handler. *)

\* A closure that forgets the node and starts with the RPC bridge.
handler_invoke_skip ==
    /\ Running /\ handler = "blocked" /\ pending > 0
    /\ pending' = pending - 1
    /\ handler' = "kill_eth_rpc"
    /\ UNCHANGED <<dependencies, pc, dep_i, children, status, panic_msg>>

\* ctrlc's thread takes one pending SIGINT and calls the closure.
handler_invoke ==
    /\ Running /\ handler = "blocked" /\ pending > 0
    /\ pending' = pending - 1
    /\ handler' = "kill_omni_node"
    /\ UNCHANGED <<dependencies, pc, dep_i, children, status, panic_msg>>

\* A panic of the handler thread unwinds that thread only: the closure is
\* gone, the main thread keeps looping.
handler_panic(msg) ==
    /\ handler' = "panicked"
    /\ panic_msg' = msg
    /\ UNCHANGED <<pc, status>>

\* kill_process(id) up to the spawn of kill; a failed spawn is the Err the
\* closure's expect panics on.
kill_process_spawn(here, role, target, msg, next) ==
    /\ Running /\ handler = here
    /\ \E ok \in SpawnResults :
        /\ children' = generate_child_process("handler", role, "kill",
                           kill_args(child_of(target)), ok)
        /\ IF ok
           THEN handler' = next /\ UNCHANGED <<pc, status, panic_msg>>
           ELSE handler_panic(msg)
    /\ UNCHANGED <<dependencies, dep_i, pending>>

\* The kill command runs and kill_process' wait returns.  A kill that exits
\* with 0 has sent TERM to the process its argument names.
kill_effect(k, r) ==
    [j \in 1..Len(children) |->
        IF j = k THEN [children[j] EXCEPT !.st = r]
        ELSE IF r = "exit0" /\ j \in kill_targets(children[k].args)
        THEN [children[j] EXCEPT !.term = @ + 1]
        ELSE children[j]]

handler_kill_omni_node_spawn ==
    kill_process_spawn("kill_omni_node", "kill_omni_node", "omni_node",
                       "Omninode failed to be killed", "kill_omni_node_wait")

handler_kill_omni_node_wait ==
    /\ Running /\ handler = "kill_omni_node_wait"
    /\ \E r \in WaitResults :
        /\ children' = kill_effect(last, r)
        /\ IF wait_is_err(r)
           THEN handler_panic("Omninode failed to be killed")
           ELSE handler' = "kill_eth_rpc" /\ UNCHANGED <<pc, status, panic_msg>>
    /\ UNCHANGED <<dependencies, dep_i, pending>>

handler_kill_eth_rpc_spawn ==
    kill_process_spawn("kill_eth_rpc", "kill_eth_rpc", "eth_rpc",
                       "ETH RPC failed to be killed", "kill_eth_rpc_wait")

\* After the second kill_process returns Ok: println and exit(0).
handler_kill_eth_rpc_wait ==
    /\ Running /\ handler = "kill_eth_rpc_wait"
    /\ \E r \in WaitResults :
        /\ children' = kill_effect(last, r)
        /\ IF wait_is_err(r)
           THEN handler_panic("ETH RPC failed to be killed")
           ELSE /\ handler' = "exited"
                /\ Stop("exit0", "")
    /\ UNCHANGED <<dependencies, dep_i, pending>>

---------------------------------------------------------------------------
(* The environment. *)

\* A SIGINT is delivered.  Before set_handler it has its default action and
\* kills the program; after, ctrlc queues it for the handler thread.
sigint ==
    /\ Running /\ pending < MaxSignals
    /\ IF handler = "unregistered"
       THEN /\ Stop("sigint", "")
            /\ UNCHANGED pending
       ELSE /\ pending' = pending + 1
            /\ UNCHANGED <<pc, status, panic_msg>>
    /\ UNCHANGED <<dependencies, dep_i, children, handler>>

\* A service exits, of its own accord or because of a TERM it was sent.
\* Nobody waits for it.
service_exits ==
    /\ \E k \in 1..Len(children) :
        /\ children[k].role \in {"omni_node", "eth_rpc"}
        /\ alive(k)
        /\ children' = [children EXCEPT ![k].st = "exited"]
    /\ UNCHANGED <<dependencies, pc, dep_i, handler, pending, status, panic_msg>>

\* The process a presence probe started exits of its own accord.  The
\* program keeps no handle of it and never waits for it.
probe_exits ==
    /\ \E k \in 1..Len(children) :
        /\ children[k].role = "probe"
        /\ alive(k)
        /\ children' = [children EXCEPT ![k].st = "exited"]
    /\ UNCHANGED <<dependencies, pc, dep_i, handler, pending, status, panic_msg>>

---------------------------------------------------------------------------
(* Specifications. *)

InitRest ==
    /\ pc = "check_dependencies"
    /\ dep_i = 1
    /\ children = <<>>
    /\ handler = "unregistered"
    /\ pending = 0
    /\ status = "running"
    /\ panic_msg = ""

Init == dependencies = main_dependencies /\ InitRest

check_dependencies ==
    \/ check_dependencies_probe
    \/ install_dependency_spawn
    \/ install_dependency_wait
    \/ check_dependencies_return

main ==
    \/ check_dependencies
    \/ main_chain_spec_spawn
    \/ main_chain_spec_wait
    \/ main_purge_spawn
    \/ main_purge_wait
    \/ main_omni_node_spawn
    \/ main_eth_rpc_spawn
    \/ main_set_handler
    \/ main_sleep
    \/ main_wake

set_handler_closure ==
    \/ handler_invoke
    \/ handler_kill_omni_node_spawn
    \/ handler_kill_omni_node_wait
    \/ handler_kill_eth_rpc_spawn
    \/ handler_kill_eth_rpc_wait

Next == main \/ set_handler_closure \/ sigint \/ service_exits \/ probe_exits

Spec == Init /\ [][Next]_vars

\* The program's own steps are taken whenever they can be: both threads are
\* scheduled by the operating system, and a spawn or a wait of a command that
\* terminates returns.  The environment owes nothing.
FairSpec == Spec /\ WF_vars(main) /\ WF_vars(set_handler_closure)

\* check_dependencies on any list of dependencies, not only main's.
DepUniverse ==
    { Dependency("foo", "foo-pkg", None),
      Dependency("bar", "bar-pkg", Some(GitOptions("U", "v1.0", "Tag"))),
      Dependency("baz", "baz-pkg", Some(GitOptions("U", "0a1b2c", "CommitHash"))) }

DepLists == UNION {[1..n -> DepUniverse] : n \in 0..MaxDeps}

InitDeps == dependencies \in DepLists \cup {main_dependencies} /\ InitRest

SpecDeps == InitDeps /\ [][check_dependencies]_vars

---------------------------------------------------------------------------
(* Reading the list of children. *)

Children == 1..Len(children)

Spawned(k) == children[k].st # "spawn_err"

\* The dependency a probe or install child belongs to: for_each probes each
\* dependency once, in order, and installs right after the probe.
DepOf(k) == Cardinality({p \in 1..k : children[p].role = "probe"})

ProbesOf(j) == {k \in Children : children[k].role = "probe" /\ DepOf(k) = j}

InstallsOf(j) == {k \in Children : children[k].role = "install" /\ DepOf(k) = j}

\* Dependencies whose probe has run, and those found present / absent.
Probed == {j \in 1..Len(dependencies) : ProbesOf(j) # {}}

Present == {j \in Probed : \A k \in ProbesOf(j) : Spawned(k)}

Absent == Probed \ Present

---------------------------------------------------------------------------
(* C6, C7: check_dependencies on any dependency list (SpecDeps). *)

\* C6: the install step is never invoked for a dependency whose presence
\* probe spawned; each dependency is probed at most once; and when every
\* dependency of the list is present, the children of the run are probes only.
C6_NoInstallWhenPresent ==
    /\ \A j \in Present : InstallsOf(j) = {}
    /\ \A j \in Probed : Cardinality(ProbesOf(j)) = 1
    /\ Present = 1..Len(dependencies) =>
           \A k \in Children : children[k].role = "probe"

\* A list of at least two dependencies, all found present, checked to the end.
C6_Witness ==
    /\ pc = "chain_spec"
    /\ Len(dependencies) >= 2
    /\ Present = 1..Len(dependencies)
    /\ Len(children) = Len(dependencies)

\* The flag that pins a reference of the given kind.
PinFlag(kind) == IF kind = "Tag" THEN "--tag" ELSE "--rev"

\* The install command line the source descriptor of a dependency asks for.
ExpectedInstall(dep) ==
    IF dep.git = None
    THEN <<"install", dep.install_bin>>
    ELSE <<"install", "--git", dep.git[1].url, PinFlag(dep.git[1].install_type),
           dep.git[1].tag_or_hash, dep.install_bin>>

\* C7: every absent dependency gets exactly one install attempt (none only
\* while install_dependency has not spawned yet), a cargo command of the form
\* its source descriptor selects: by name without pinning arguments when there
\* is no descriptor, --git url --tag ref for Tag, --git url --rev ref for
\* CommitHash.
C7_OneInstallPerAbsent ==
    \A j \in Absent :
        /\ Cardinality(InstallsOf(j)) =
               IF pc = "install_dependency" /\ dep_i = j THEN 0 ELSE 1
        /\ \A k \in InstallsOf(j) :
               /\ children[k].bin = "cargo"
               /\ children[k].args = ExpectedInstall(dependencies[j])

\* A finished check in which a dependency without descriptor and one pinned
\* by CommitHash were both absent and installed.
C7_Witness ==
    /\ pc = "chain_spec"
    /\ \E j \in Absent : dependencies[j].git = None /\ InstallsOf(j) # {}
    /\ \E j \in Absent :
           /\ dependencies[j].git # None
           /\ dependencies[j].git[1].install_type = "CommitHash"
           /\ InstallsOf(j) # {}

---------------------------------------------------------------------------
(* Reading the supervision state. *)

Services == {"omni_node", "eth_rpc"}

\* The service was spawned and its handle exists.
Launched(q) == child_of(q) # 0 /\ Spawned(child_of(q))

\* The launch of the service was tried and failed.
LaunchFailed(q) == child_of(q) # 0 /\ ~Spawned(child_of(q))

BothLaunched == \A q \in Services : Launched(q)

\* The termination requests issued for a service: the kill commands that
\* were started with its process id.
KillsOf(q) ==
    {k \in Children : /\ children[k].bin = "kill"
                      /\ Spawned(k)
                      /\ child_of(q) \in kill_targets(children[k].args)}

\* kill_process was called for the service, whatever came of it.
KillTried(q) == \E k \in Children : children[k].role = "kill_" \o q

\* The kill command for the service could not be started.
KillFailed(q) ==
    \E k \in Children : children[k].role = "kill_" \o q /\ ~Spawned(k)

\* SIGINT deliveries since the handler was registered.
Delivered ==
    pending + IF handler \in {"unregistered", "blocked"} THEN 0 ELSE 1

\* A child that did not do its job: it could not be started or exited non-zero.
Failed(k) == children[k].st \in {"spawn_err", "exit1"}

---------------------------------------------------------------------------
(* C1 .. C5: the supervisor. *)

\* C1: the idle loop is only entered with both services launched; and when
\* the launch of a service fails, the program reports failure and every
\* service launched before has been issued a termination request.
C1_NoOrphanOnPartialLaunch ==
    /\ pc \in {"loop", "sleep"} => BothLaunched
    /\ \A q \in Services :
          LaunchFailed(q) =>
             /\ status \in {"exit1", "panic"}
             /\ \A o \in Services : Launched(o) => KillsOf(o) # {}

\* C2: when two interrupts have been delivered, each managed process has
\* been issued at most one termination request and no invocation of the
\* handler has panicked.
C2_DoubleInterruptIdempotent ==
    Delivered >= 2 =>
       /\ \A q \in Services : Cardinality(KillsOf(q)) <= 1
       /\ handler # "panicked"

\* C3: once both services are launched and an interrupt has been received,
\* the program eventually has issued a termination request for each of them
\* and exited with status 0.
C3_InterruptLeadsToCleanExit ==
    (BothLaunched /\ (Delivered >= 1 \/ status = "sigint"))
        ~> (status = "exit0" /\ \A q \in Services : KillsOf(q) # {})

\* C4: when the termination request for a managed process cannot be sent,
\* kill_process is still called for the other one and the program eventually
\* exits.
C4_KillFailureDoesNotAbortShutdown ==
    (\E q \in Services : KillFailed(q))
        ~> (status # "running" /\ \A q \in Services : KillTried(q))

\* C5: the program has not exited with status 0 while a service it launched
\* is still alive.
C5_ExitWaitsForTermination ==
    status = "exit0" =>
       \A k \in Children : children[k].role \in Services => ~alive(k)

---------------------------------------------------------------------------
(* C8 .. C10: failures of the one-shot steps (Spec). *)

\* C8: an install command that could not be started or exited non-zero is
\* the last thing the program starts, and the program does not end in
\* success.
C8_InstallFailureIsFatal ==
    \A k \in Children :
        children[k].role = "install" /\ Failed(k) =>
           k = Len(children) /\ status # "exit0"

\* C9: purge is only started after generate was; and when generate could
\* not be started or exited non-zero, purge is never started.
C9_GenerateBeforePurge ==
    \A k \in Children :
        /\ children[k].role = "purge" =>
               \E j \in 1..(k - 1) : children[j].role = "chain_spec"
        /\ children[k].role = "chain_spec" /\ Failed(k) =>
               \A j \in Children : children[j].role # "purge"

\* C10: when purge could not be started or exited non-zero, neither service
\* is ever launched and the program does not end in success.
C10_PurgeFailureIsFatal ==
    \A k \in Children :
        children[k].role = "purge" /\ Failed(k) =>
           /\ \A j \in Children : children[j].role \notin Services
           /\ status # "exit0"

---------------------------------------------------------------------------
(* C11 .. C18: behaviour of the whole run (Spec). *)

\* Child::wait has returned for the child, with an exit status or with an
\* io::Error: either way the child is not running any more.
Waited(k) == children[k].st \in WaitResults

\* Child::wait has returned the child's exit status.
Exited(k) == children[k].st \in {"exit0", "exit1"}

\* C11: whenever the program has ended because of an interrupt (killed by
\* the signal, or exit(0) in the handler), every service it had spawned has
\* been issued a termination request.
C11_NoOrphanOnInterrupt ==
    status \in {"sigint", "exit0"} =>
       \A q \in Services : Launched(q) => KillsOf(q) # {}

\* C12: the children are started strictly in program order and each waited
\* step has ended before the next child is started: the probes follow the
\* dependency list, a probe comes first or after a successful probe or a
\* waited install, an install comes right after its own failed probe,
\* generate comes after the last dependency, purge right after generate has
\* exited, and a service only after purge has exited.
C12_StrictSequence ==
    \A k \in Children :
        /\ children[k].role = "probe" =>
              /\ DepOf(k) <= Len(dependencies)
              /\ children[k].bin = dependencies[DepOf(k)].bin
              /\ k > 1 =>
                    \/ children[k - 1].role = "probe" /\ Spawned(k - 1)
                    \/ children[k - 1].role = "install" /\ Waited(k - 1)
        /\ children[k].role = "install" =>
              /\ k > 1 /\ children[k - 1].role = "probe" /\ ~Spawned(k - 1)
              /\ k < Len(children) => Waited(k)
        /\ children[k].role = "chain_spec" =>
              /\ DepOf(k) = Len(dependencies)
              /\ \A j \in 1..(k - 1) : children[j].role \in {"probe", "install"}
              /\ k > 1 =>
                    \/ children[k - 1].role = "probe" /\ Spawned(k - 1)
                    \/ children[k - 1].role = "install" /\ Waited(k - 1)
        /\ children[k].role = "purge" =>
              k > 1 /\ children[k - 1].role = "chain_spec" /\ Exited(k - 1)
        /\ children[k].role \in Services =>
              \E j \in 1..(k - 1) : children[j].role = "purge" /\ Exited(j)

\* Both services launched after at least one dependency had to be installed.
C12_Witness ==
    /\ BothLaunched
    /\ pc = "loop"
    /\ \E k \in Children : children[k].role = "install" /\ Waited(k)

\* The supervision state: 0 Idle, 1 PartiallyLaunched, 2 FullyLaunched,
\* 3 Terminating, 4 Terminated.
SupervisionState ==
    IF status # "running" THEN 4
    ELSE IF \E k \in Children : children[k].bin = "kill" THEN 3
    ELSE IF BothLaunched THEN 2
    ELSE IF \E q \in Services : Launched(q) THEN 1
    ELSE 0

\* C13: no step moves the supervision state backward, and no step spawns a
\* service that was spawned before or after a kill command was started.
C13_ForwardNoRelaunch ==
    [][ /\ SupervisionState' >= SupervisionState
        /\ \A k \in (Len(children) + 1)..Len(children') :
              children'[k].role \in Services =>
                 \A j \in Children : /\ children[j].role # children'[k].role
                                     /\ children[j].bin # "kill" ]_vars

\* A service has exited on its own while the main thread sleeps in its loop
\* and no interrupt has come; each service was spawned once.
C13_Witness ==
    /\ pc = "sleep" /\ handler = "blocked" /\ pending = 0
    /\ \E k \in Children : children[k].role \in Services /\ children[k].st = "exited"
    /\ \A q \in Services : Cardinality({k \in Children : children[k].role = q}) = 1

C15_HandlesOwnedByHandler ==
    /\ handler # "unregistered" => pc \in {"loop", "sleep", "done"}
    /\ \A k \in Children :
          /\ children[k].bin = "kill" => children[k].by = "handler"
          /\ children[k].by = "main" /\ child_of("eth_rpc") # 0 =>
                k <= child_of("eth_rpc")
          /\ children[k].role \in Services => ~Waited(k)

\* The handler has started a kill command while the main thread sleeps.
C15_Witness ==
    /\ pc = "sleep"
    /\ \E k \in Children : children[k].bin = "kill" /\ Spawned(k)

\* C16: when the program has exited with status 0 it was the handler that
\* exited, after the kill command for the node and then the kill command for
\* the RPC bridge were each spawned and waited for; the main thread itself
\* never ends the program in success.
C16_ExitZeroOnlyThroughHandler ==
    /\ status = "exit0" =>
          /\ handler = "exited"
          /\ \E a, b \in Children :
                /\ a < b
                /\ children[a].role = "kill_omni_node" /\ Exited(a)
                /\ children[a].args = kill_args(child_of("omni_node"))
                /\ children[b].role = "kill_eth_rpc" /\ Exited(b)
                /\ children[b].args = kill_args(child_of("eth_rpc"))
    /\ pc = "done" /\ handler # "exited" => status \in {"exit1", "panic", "sigint"}

\* The program has exited with status 0 with an interrupt still pending.
C16_Witness == status = "exit0" /\ handler = "exited" /\ pending >= 1

\* C17: every kill command targets a service and nothing else; a probe's
\* process is never waited for and never sent a TERM.
C17_OnlyServicesAreTerminated ==
    \A k \in Children :
        /\ children[k].bin = "kill" =>
              kill_targets(children[k].args) \subseteq
                 {j \in Children : children[j].role \in Services}
        /\ children[k].role = "probe" =>
              ~Waited(k) /\ children[k].term = 0
        /\ children[k].term > 0 => children[k].role \in Services

\* The program has exited with status 0, both services were sent a TERM,
\* and a process started by a probe is still running.
C17_Witness ==
    /\ status = "exit0"
    /\ \A q \in Services : children[child_of(q)].term > 0
    /\ \E k \in Children : children[k].role = "probe" /\ alive(k)

\* C18: kill_process is called for the RPC bridge only after the kill
\* command for the node was spawned and has exited; and when the kill command
\* for the node could not be spawned, kill_process is never called for the
\* RPC bridge and the program does not exit with status 0.
C18_RpcKillAfterNodeKill ==
    /\ \A k \in Children :
          children[k].role = "kill_eth_rpc" =>
             \E j \in 1..(k - 1) : children[j].role = "kill_omni_node" /\ Exited(j)
    /\ KillFailed("omni_node") =>
          ~KillTried("eth_rpc") /\ status # "exit0" /\ handler = "panicked"

\* The kill command for the node could not be spawned and the main thread
\* is back in its loop.
C18_Witness ==
    /\ KillFailed("omni_node")
    /\ handler = "panicked"
    /\ pc = "loop"

====
